---- MODULE Spec2Model ----
(***************************************************************************)
(* Model of the meme-snipe-v18 trading platform: the Master Executor       *)
(* (event router, strategy tasks, signal pipeline), the trade ledger       *)
(* (SQLite table `trades`), the Position Manager (trailing stop), the      *)
(* portfolio monitor, the guardians' kill-switch publishers and the        *)
(* Meta-Allocator's publication of allocation snapshots.                   *)
(*                                                                         *)
(* Numbers: prices are integers (cents), sizes are integer USD chosen so   *)
(* that size / entry_price is exact; percentages are integers.             *)
(***************************************************************************)
EXTENDS Integers, Sequences, FiniteSets, TLC

VARIABLES
    clock,                  \* chrono::Utc::now().timestamp(), seconds
    streams,                \* broker: stream name -> sequence of messages
    published,              \* number of market messages appended so far
    market_stream_ids,      \* run(): stream name -> index of the last acknowledged message
    batch,                  \* run(): messages of the current XREAD reply still to process
    dispatching,            \* dispatch_event(): senders still to be sent the current event
    run_pc,                 \* run(): "read" | "process" | "reconnect"
    STALE_EVENTS_TOTAL,     \* prometheus counter, per event type
    sol_usd_price,          \* MasterExecutor.sol_usd_price
    portfolio_paused,       \* MasterExecutor.portfolio_paused
    active_strategies,      \* MasterExecutor.active_strategies: id -> task index
    event_router_senders,   \* MasterExecutor.event_router_senders: EventType -> Seq(task index)
    strategy_allocations,   \* MasterExecutor.strategy_allocations: id -> mode
    tasks,                  \* every strategy_task ever spawned (with its mailbox)
    trades,                 \* the ledger table `trades`; row id = index
    venue_orders,           \* trade ids for which a venue order was submitted
    venue_calls,            \* calls made to the spot, perps, bundle and signer clients
    position_updates,       \* trade ids published on position_updates_channel
    pm_paper_mode,          \* position_manager CONFIG.paper_trading_mode
    pm_pc,                  \* position_manager run_monitor: "idle" | "select" | "checked"
    pm_read_from,           \* length of events:price when the XREAD "$" was issued
    current_prices,         \* position_manager price cache: token -> price
    highest_water_mark_pnl, \* portfolio_monitor local
    current_pnl,            \* portfolio_monitor local
    kill_switch_listener,   \* messages delivered to run()'s kill_switch_channel subscription
    strategy_registry_stream,    \* broker stream of registered strategy ids
    strategy_registry_stream_id, \* meta_allocator: cursor into the registry stream
    allocations_channel,    \* broker stream the Meta-Allocator publishes snapshots to
    allocation_stream_id,   \* run(): cursor for the allocation stream
    strategy_metrics,       \* meta_allocator: id -> metrics read and computed in the last epoch
    allocations,            \* meta_allocator: the allocation list of the last epoch
    alerts,                 \* ids of the graduation alerts published on "alerts"
    allocator_pc,           \* meta_allocator main: "running" | "terminated"
    lock_pc,                \* executor process: task -> place in its sequence of lock operations
    held                    \* executor process: task -> the mutexes it holds

vars == <<clock, streams, published, market_stream_ids, batch, dispatching, run_pc,
          STALE_EVENTS_TOTAL, sol_usd_price, portfolio_paused, active_strategies,
          event_router_senders, strategy_allocations, tasks, trades, venue_orders,
          venue_calls, position_updates, pm_paper_mode, pm_pc, pm_read_from, current_prices,
          highest_water_mark_pnl, current_pnl, kill_switch_listener,
          strategy_registry_stream, strategy_registry_stream_id,
          allocations_channel, allocation_stream_id, strategy_metrics, allocations,
          alerts, allocator_pc, lock_pc, held>>

routerVars == <<market_stream_ids, batch, dispatching, run_pc, STALE_EVENTS_TOTAL,
                sol_usd_price>>
reconcileVars == <<active_strategies, event_router_senders, strategy_allocations>>
ledgerVars == <<trades, venue_orders, venue_calls, position_updates>>
pmVars == <<pm_paper_mode, pm_pc, pm_read_from, current_prices>>
monitorVars == <<highest_water_mark_pnl, current_pnl>>
lockVars == <<lock_pc, held>>
allocatorVars == <<strategy_metrics, allocations, alerts, allocator_pc>>
controlVars == <<kill_switch_listener, strategy_registry_stream,
                 strategy_registry_stream_id, allocations_channel, allocation_stream_id,
                 allocatorVars>>

\* Option<T>: None is the empty tuple, Some(v) the one-element tuple
None == <<>>
Some(v) == <<v>>
unwrap(o) == o[1]
\* a NULL signature column
NULL == "NULL"

(***************************************************************************)
(* Bounds of the model.                                                    *)
(***************************************************************************)
MaxMsgs == 2        \* market messages appended to the broker in one run
MaxClock == 1       \* seconds the clock advances
MaxInst == 2        \* strategy tasks spawned in one run
MaxTrades == 2      \* ledger rows
MaxStale == 2       \* cap of the stale-event counter
MaxKill == 1        \* kill-switch messages published
MaxRegistry == 2    \* registrations on strategy_registry_stream
MaxSnapshots == 2   \* snapshots on allocations_channel
MailboxCap == 1     \* capacity of a strategy mailbox (mpsc::channel(100), scaled)

(***************************************************************************)
(* Program constants and configuration.                                    *)
(***************************************************************************)
StaleSecs == 30
ReadCount == 100
GlobalMaxPositionUsd == 1800
TrailingStopLossPercent == 10
PortfolioStopLossPercent == 50

EventTypes == {"Price", "Social", "Depth", "Bridge", "Funding", "OnChain",
               "SolPrice", "DataSourceHeartbeat"}

\* The streams run() reads; the model carries four of the eight.
StreamOrder == <<"events:price", "events:social", "events:sol_price",
                 "events:data_source_heartbeat">>
StreamNames == {StreamOrder[k] : k \in 1..Len(StreamOrder)}

StreamType(s) ==
    CASE s = "events:price" -> "Price"
      [] s = "events:social" -> "Social"
      [] s = "events:sol_price" -> "SolPrice"
      [] OTHER -> "DataSourceHeartbeat"

\* inventory of strategy constructors (two of the ten), with subscriptions()
Registry == {"momentum_5m", "airdrop_rotation"}
AllocIds == Registry \cup {"unknown_strategy"}

subscriptions(sid) ==
    IF sid = "momentum_5m" THEN {"Price"} ELSE {"Social", "Price"}

Tokens == {"T1"}
Prices == {90, 100, 120}
SolPrices == {0, 150}
Sizes == {1800, 3600}
Lags == {0, 30}
Modes == {"Paper", "Live"}
Sides == {"Long", "Short"}

Min(a, b) == IF a < b THEN a ELSE b
Max(a, b) == IF a > b THEN a ELSE b

Last(s) == s[Len(s)]

RECURSIVE SeqOfSet(_)
SeqOfSet(S) ==
    IF S = {} THEN <<>>
    ELSE LET x == CHOOSE y \in S : \A z \in S : y <= z
         IN <<x>> \o SeqOfSet(S \ {x})

(***************************************************************************)
(* shared-models                                                           *)
(***************************************************************************)
\* MarketEvent::get_type; "Garbage" stands for a payload serde cannot parse
get_type(m) == m.type

timestamp(m) == m.ts

(***************************************************************************)
(* The trade ledger (executor/src/database.rs, position_manager/src/       *)
(* database.rs).                                                           *)
(***************************************************************************)
log_trade_attempt(tr, details, strategy_id, entry_price_usd, mode) ==
    Append(tr, [strategy_id |-> strategy_id,
                token_address |-> details.token_address,
                amount_usd |-> details.suggested_size_usd,
                status |-> "PENDING",
                signature |-> NULL,
                entry_price_usd |-> entry_price_usd,
                close_time |-> None,
                close_price_usd |-> None,
                pnl_usd |-> None,
                side |-> details.side,
                highest_price_usd |-> Some(entry_price_usd),
                mode |-> mode])

\* an update that sets the status and leaves the signature column
Mut_open_trade(tr, trade_id, signature) ==
    [tr EXCEPT ![trade_id].status = "OPEN"]

open_trade(tr, trade_id, signature) ==
    [tr EXCEPT ![trade_id].status = "OPEN", ![trade_id].signature = signature]

update_trade_pnl(tr, trade_id, status, close_price_usd, pnl_usd) ==
    [tr EXCEPT ![trade_id].status = status,
               ![trade_id].close_time = Some(clock),
               ![trade_id].close_price_usd = Some(close_price_usd),
               ![trade_id].pnl_usd = Some(pnl_usd)]

\* position_manager only; #[allow(dead_code)], no caller
update_trade_status(tr, trade_id, status) ==
    [tr EXCEPT ![trade_id].status = status]

update_highest_price(tr, trade_id, new_highest_price) ==
    [tr EXCEPT ![trade_id].highest_price_usd = Some(new_highest_price)]

Mut_get_open_trades(tr) == SeqOfSet(DOMAIN tr)

get_open_trades(tr) ==
    SeqOfSet({id \in DOMAIN tr : tr[id].status = "OPEN"})

RECURSIVE SumPnl(_, _)
SumPnl(tr, ids) ==
    IF ids = {} THEN 0
    ELSE LET id == CHOOSE x \in ids : TRUE
         IN unwrap(tr[id].pnl_usd) + SumPnl(tr, ids \ {id})

\* SELECT SUM(pnl_usd) FROM trades WHERE status LIKE 'CLOSED_%'
get_total_pnl(tr) ==
    SumPnl(tr, {id \in DOMAIN tr :
                  /\ tr[id].status \in {"CLOSED_PROFIT", "CLOSED_LOSS"}
                  /\ tr[id].pnl_usd # None})

(***************************************************************************)
(* Initial state: MasterExecutor::new, empty broker, empty ledger.         *)
(***************************************************************************)
(***************************************************************************)
(* The mutexes of the executor process and the order in which each task    *)
(* takes them.  tokio's Mutex::blocking_lock panics when it is called from *)
(* a task of the runtime.                                                  *)
(***************************************************************************)
Locks == {"executor", "strategy_allocations", "portfolio_paused"}
LockTasks ==
    {"main", "state_handler", "strategy_task", "portfolio_monitor", "execute_action"}

LockOp(op, lock) == [op |-> op, lock |-> lock]

\* a strategy task that reads the allocations while it holds the pause flag
Mut_LockProgram(t) ==
    IF t = "strategy_task"
    THEN <<LockOp("lock", "portfolio_paused"), LockOp("lock", "strategy_allocations"),
           LockOp("unlock", "strategy_allocations"), LockOp("unlock", "portfolio_paused")>>
    ELSE <<LockOp("lock", "portfolio_paused"), LockOp("unlock", "portfolio_paused")>>

\* main: paused_flag() under a temporary guard, then the guard kept across
\* run(); in the loop, reconcile_strategies and the reconnect arm.
\* state_handler: the executor, then get_state_snapshot.
LockProgram(t) ==
    CASE t = "main" ->
           <<LockOp("lock", "executor"), LockOp("unlock", "executor"),
             LockOp("lock", "executor"),
             LockOp("lock", "strategy_allocations"),
             LockOp("unlock", "strategy_allocations"),
             LockOp("lock", "portfolio_paused"), LockOp("unlock", "portfolio_paused")>>
      [] t = "state_handler" ->
           <<LockOp("lock", "executor"),
             LockOp("blocking_lock", "strategy_allocations"),
             LockOp("blocking_lock", "portfolio_paused"),
             LockOp("unlock", "portfolio_paused"),
             LockOp("unlock", "strategy_allocations"),
             LockOp("unlock", "executor")>>
      [] t \in {"strategy_task", "execute_action"} ->
           <<LockOp("lock", "portfolio_paused"), LockOp("unlock", "portfolio_paused"),
             LockOp("lock", "strategy_allocations"),
             LockOp("unlock", "strategy_allocations")>>
      [] OTHER ->
           <<LockOp("lock", "portfolio_paused"), LockOp("unlock", "portfolio_paused")>>

\* where a task goes on after the last operation of its sequence: main stays
\* in the loop of run(), the other loops start over
LoopStart(t) == IF t = "main" THEN 4 ELSE 1

\* places of state_handler outside its sequence
Panicked == 0
Returned == Len(LockProgram("state_handler")) + 1
NoRequest == Len(LockProgram("state_handler")) + 2

Init ==
    /\ clock = 0
    /\ streams = [s \in StreamNames |-> <<>>]
    /\ published = 0
    /\ market_stream_ids = [s \in StreamNames |-> 0]
    /\ batch = <<>>
    /\ dispatching = <<>>
    /\ run_pc = "read"
    /\ STALE_EVENTS_TOTAL = [t \in EventTypes |-> 0]
    /\ sol_usd_price = 1
    /\ portfolio_paused = FALSE
    /\ active_strategies = <<>>
    /\ event_router_senders = [t \in EventTypes |-> <<>>]
    /\ strategy_allocations = <<>>
    /\ tasks = <<>>
    /\ trades = <<>>
    /\ venue_orders = {}
    /\ venue_calls = {}
    /\ position_updates = {}
    /\ pm_paper_mode \in BOOLEAN
    /\ pm_pc = "idle"
    /\ pm_read_from = 0
    /\ current_prices = [t \in Tokens |-> None]
    /\ highest_water_mark_pnl = 0
    /\ current_pnl = 0
    /\ kill_switch_listener = <<>>
    /\ strategy_registry_stream = <<>>
    /\ strategy_registry_stream_id = 0
    /\ allocations_channel = <<>>
    /\ allocation_stream_id = 0
    /\ strategy_metrics = <<>>
    /\ allocations = <<>>
    /\ alerts = <<>>
    /\ allocator_pc = "running"
    /\ lock_pc = [t \in LockTasks |-> IF t = "state_handler" THEN NoRequest ELSE 1]
    /\ held = [t \in LockTasks |-> {}]

(***************************************************************************)
(* Environment: the clock and the data ingesters.                          *)
(***************************************************************************)
Tick ==
    /\ clock < MaxClock
    /\ clock' = clock + 1
    /\ UNCHANGED <<streams, published, routerVars, portfolio_paused, reconcileVars,
                   tasks, ledgerVars, pmVars, monitorVars, lockVars, controlVars>>

\* the messages an ingester can append to stream s now: an event of the
\* stream's type stamped `lag` seconds ago, or (social feed, when `unparsable`)
\* a payload serde cannot parse
MessagesFor(s, lags, prices, sol_prices, unparsable) ==
    LET ty == StreamType(s)
        ps == CASE ty = "Price" -> prices
                [] ty = "SolPrice" -> sol_prices
                [] OTHER -> {0}
    IN  {[type |-> ty, ts |-> clock - lag, token_address |-> tok, price_usd |-> p] :
            lag \in lags, tok \in Tokens, p \in ps}
        \cup (IF ty = "Social" /\ unparsable
              THEN {[type |-> "Garbage", ts |-> 0, token_address |-> "T1", price_usd |-> 0]}
              ELSE {})

Ingest(s, m) ==
    /\ published < MaxMsgs
    /\ published' = published + 1
    /\ streams' = [streams EXCEPT ![s] = Append(@, m)]
    /\ UNCHANGED <<clock, routerVars, portfolio_paused, reconcileVars, tasks,
                   ledgerVars, pmVars, monitorVars, lockVars, controlVars>>

(***************************************************************************)
(* MasterExecutor::run – the event router.                                 *)
(***************************************************************************)
IsStale(now, ts) == now - ts > StaleSecs

RECURSIVE XReadFrom(_, _, _)
\* XREAD COUNT 100 over the streams, each from its own cursor
XReadFrom(k, strs, ids) ==
    IF k > Len(StreamOrder) THEN <<>>
    ELSE LET s == StreamOrder[k]
             hi == Min(Len(strs[s]), ids[s] + ReadCount)
         IN  [j \in 1..(hi - ids[s]) |-> [stream |-> s, id |-> ids[s] + j]]
             \o XReadFrom(k + 1, strs, ids)

Mut_DispatchTargets(senders, event_type) ==
    senders["Price"] \o senders["Social"]

\* dispatch_event: the senders registered under the event's type
DispatchTargets(senders, event_type) == senders[event_type]

\* the Ok(streams) arm of the read; the reply is empty when the 5 s block
\* times out
RunRead ==
    /\ run_pc = "read"
    /\ batch = <<>>
    /\ batch' = XReadFrom(1, streams, market_stream_ids)
    /\ run_pc' = "process"
    /\ UNCHANGED <<clock, streams, published, market_stream_ids, dispatching,
                   STALE_EVENTS_TOTAL, sol_usd_price, portfolio_paused, reconcileVars,
                   tasks, ledgerVars, pmVars, monitorVars, lockVars, controlVars>>

\* the Err(e) arm of the read: pause, then sleep 5 s
RunReadErr ==
    /\ run_pc = "read"
    /\ batch = <<>>
    /\ portfolio_paused' = TRUE
    /\ run_pc' = "reconnect"
    /\ UNCHANGED <<clock, streams, published, market_stream_ids, batch, dispatching,
                   STALE_EVENTS_TOTAL, sol_usd_price, reconcileVars, tasks, ledgerVars,
                   pmVars, monitorVars, lockVars, controlVars>>

\* ConnectionManager::new after the sleep; pause is cleared only on success
RunReconnect(ok) ==
    /\ run_pc = "reconnect"
    /\ run_pc' = "process"
    /\ portfolio_paused' = IF ok THEN FALSE ELSE portfolio_paused
    /\ UNCHANGED <<clock, streams, published, market_stream_ids, batch, dispatching,
                   STALE_EVENTS_TOTAL, sol_usd_price, reconcileVars, tasks, ledgerVars,
                   pmVars, monitorVars, lockVars, controlVars>>

\* market_stream_ids.insert(stream_name, id_str) and on to the next message
AckAndNext ==
    /\ market_stream_ids' = [market_stream_ids EXCEPT ![Head(batch).stream] = Head(batch).id]
    /\ batch' = Tail(batch)

\* one message of the batch, up to the first send of dispatch_event
RunProcessMessage ==
    /\ run_pc = "process"
    /\ batch # <<>>
    /\ dispatching = <<>>
    /\ LET h == Head(batch)
           m == streams[h.stream][h.id]
       IN  IF get_type(m) = "Garbage"
           THEN /\ AckAndNext
                /\ UNCHANGED <<dispatching, STALE_EVENTS_TOTAL, sol_usd_price>>
           ELSE IF IsStale(clock, timestamp(m))
           THEN \* `continue`: the cursor is not advanced
                /\ STALE_EVENTS_TOTAL[get_type(m)] < MaxStale
                /\ STALE_EVENTS_TOTAL' =
                       [STALE_EVENTS_TOTAL EXCEPT ![get_type(m)] = @ + 1]
                /\ batch' = Tail(batch)
                /\ UNCHANGED <<market_stream_ids, dispatching, sol_usd_price>>
           ELSE IF get_type(m) = "SolPrice"
           THEN /\ sol_usd_price' = m.price_usd
                /\ AckAndNext
                /\ UNCHANGED <<dispatching, STALE_EVENTS_TOTAL>>
           ELSE IF get_type(m) = "DataSourceHeartbeat"
           THEN /\ AckAndNext
                /\ UNCHANGED <<dispatching, STALE_EVENTS_TOTAL, sol_usd_price>>
           ELSE LET targets == DispatchTargets(event_router_senders, get_type(m))
                IN  IF targets = <<>>
                    THEN /\ AckAndNext
                         /\ UNCHANGED <<dispatching, STALE_EVENTS_TOTAL, sol_usd_price>>
                    ELSE /\ dispatching' = targets
                         /\ UNCHANGED <<market_stream_ids, batch, STALE_EVENTS_TOTAL,
                                        sol_usd_price>>
    /\ UNCHANGED <<clock, streams, published, run_pc, portfolio_paused, reconcileVars,
                   tasks, ledgerVars, pmVars, monitorVars, lockVars, controlVars>>

\* sender.send(event.clone()).await: waits while the mailbox is full; Err when
\* the receiver is gone
RunSend ==
    /\ dispatching # <<>>
    /\ LET i == Head(dispatching)
           m == streams[Head(batch).stream][Head(batch).id]
       IN  IF tasks[i].pc = "dead"
           THEN UNCHANGED tasks
           ELSE /\ Len(tasks[i].mailbox) < MailboxCap
                /\ tasks' = [tasks EXCEPT ![i].mailbox = Append(@, get_type(m))]
    /\ dispatching' = Tail(dispatching)
    /\ IF Tail(dispatching) = <<>>
       THEN AckAndNext
       ELSE UNCHANGED <<market_stream_ids, batch>>
    /\ UNCHANGED <<clock, streams, published, run_pc, STALE_EVENTS_TOTAL, sol_usd_price,
                   portfolio_paused, reconcileVars, ledgerVars, pmVars, monitorVars, lockVars,
                   controlVars>>

\* the end of the loop body, after the match: the source holds two comments
\* there (allocation stream, kill switch) and no statement, so neither the
\* allocation cursor nor the kill-switch subscription is touched
RunLoopEnd ==
    /\ run_pc = "process"
    /\ batch = <<>>
    /\ dispatching = <<>>
    /\ run_pc' = "read"
    /\ UNCHANGED <<clock, streams, published, market_stream_ids, batch, dispatching,
                   STALE_EVENTS_TOTAL, sol_usd_price, portfolio_paused, reconcileVars,
                   tasks, ledgerVars, pmVars, monitorVars, lockVars, controlVars>>

(***************************************************************************)
(* MasterExecutor::reconcile_strategies.  run() contains no call of it     *)
(* (the allocation logic of the loop is elided in the source); the action  *)
(* is an invocation of the method with an arbitrary snapshot.              *)
(***************************************************************************)
Restrict(f, S) == [x \in S |-> f[x]]

\* the allocation snapshots over the ids `ids` with modes `modes`: id -> mode
Snapshots(ids, modes) ==
    UNION {[S -> modes] : S \in SUBSET ids}

Orders(S) ==
    {o \in [1..Cardinality(S) -> S] : \A a, b \in DOMAIN o : a # b => o[a] # o[b]}

\* build_strategy: the constructor registered under the id, if any
build_strategy(id) == id \in Registry

NewTask(sid) ==
    [sid |-> sid, mailbox |-> <<>>, pc |-> "recv", is_paused |-> FALSE,
     order |-> None, trade_id |-> 0]

\* Sender::is_closed(): the receiver half was dropped, i.e. strategy_task ended
is_closed(tsk, i) == tsk[i].pc = "dead"

SelectSeq2(seq, tsk) ==
    SelectSeq(seq, LAMBDA i : ~is_closed(tsk, i))

\* a reconcile that keeps the deallocated ids in the active set
Mut_StopStrategies(act, snd, tsk, new_ids) ==
    [act |-> act, snd |-> snd]

\* step 1: remove the deallocated ids; handle.abort() cancels the wrapper task
\* only, the spawned strategy_task is detached and keeps its receiver
StopStrategies(act, snd, tsk, new_ids) ==
    LET to_stop == DOMAIN act \ new_ids
    IN  [act |-> Restrict(act, DOMAIN act \ to_stop),
         snd |-> IF to_stop = {} THEN snd
                 ELSE [t \in EventTypes |-> SelectSeq2(snd[t], tsk)]]

RECURSIVE Mut_StartStrategies(_, _, _, _, _)
\* a start loop without the "already active" test
Mut_StartStrategies(ord, act, snd, tsk, init_fail) ==
    IF ord = <<>> THEN [act |-> act, snd |-> snd, tsk |-> tsk]
    ELSE LET id == Head(ord)
         IN  IF ~build_strategy(id) \/ id \in init_fail
             THEN Mut_StartStrategies(Tail(ord), act, snd, tsk, init_fail)
             ELSE LET n == Len(tsk) + 1
                  IN  Mut_StartStrategies(
                          Tail(ord),
                          (id :> n) @@ act,
                          [t \in EventTypes |->
                              IF t \in subscriptions(id) THEN Append(snd[t], n)
                              ELSE snd[t]],
                          Append(tsk, NewTask(id)),
                          init_fail)

RECURSIVE StartStrategies(_, _, _, _, _)
\* step 2: for (id, alloc) in new_ids, in the map's iteration order
StartStrategies(ord, act, snd, tsk, init_fail) ==
    IF ord = <<>> THEN [act |-> act, snd |-> snd, tsk |-> tsk]
    ELSE LET id == Head(ord)
         IN  IF id \in DOMAIN act \/ ~build_strategy(id) \/ id \in init_fail
             THEN StartStrategies(Tail(ord), act, snd, tsk, init_fail)
             ELSE LET n == Len(tsk) + 1
                  IN  StartStrategies(
                          Tail(ord),
                          (id :> n) @@ act,
                          [t \in EventTypes |->
                              IF t \in subscriptions(id) THEN Append(snd[t], n)
                              ELSE snd[t]],
                          Append(tsk, NewTask(id)),
                          init_fail)

reconcile_strategies(A, ord, init_fail) ==
    LET stopped == StopStrategies(active_strategies, event_router_senders, tasks, DOMAIN A)
        started == StartStrategies(ord, stopped.act, stopped.snd, tasks, init_fail)
    IN  /\ Len(started.tsk) <= MaxInst
        /\ strategy_allocations' = A
        /\ active_strategies' = started.act
        /\ event_router_senders' = started.snd
        /\ tasks' = started.tsk
        /\ UNCHANGED <<clock, streams, published, routerVars, portfolio_paused,
                       ledgerVars, pmVars, monitorVars, lockVars, controlVars>>

Reconcile(snaps) ==
    \E A \in snaps :
        \E ord \in Orders(DOMAIN A) :
            \E init_fail \in SUBSET (DOMAIN A \cap Registry) :
                reconcile_strategies(A, ord, init_fail)

(***************************************************************************)
(* strategy_task and execute_trade.                                        *)
(***************************************************************************)
Mut_PauseGate(is_paused) == FALSE

\* `if is_paused { continue; }`
PauseGate(is_paused) == is_paused

\* allocations that give every strategy they name the mode Live
Mut_actual_mode(allocs, sid) ==
    IF sid \in DOMAIN allocs THEN "Live" ELSE "Paper"

\* allocation.map(|a| a.mode).unwrap_or(TradeMode::Paper)
actual_mode(allocs, sid) ==
    IF sid \in DOMAIN allocs THEN allocs[sid] ELSE "Paper"

\* the OrderDetails a strategy may return
OrderChoices(sizes, sides, limits) ==
    [token_address : Tokens, suggested_size_usd : sizes, side : sides,
     limit_price : limits]

ToRecv(i) ==
    [tasks EXCEPT ![i].pc = "recv", ![i].order = None, ![i].trade_id = 0]

\* rx.recv().await, then the read of the pause flag
TaskRecv(i) ==
    /\ tasks[i].pc = "recv"
    /\ tasks[i].mailbox # <<>>
    /\ tasks' = [tasks EXCEPT ![i].mailbox = Tail(@),
                              ![i].is_paused = portfolio_paused,
                              ![i].pc = IF PauseGate(portfolio_paused)
                                        THEN "recv" ELSE "on_event"]
    /\ UNCHANGED <<clock, streams, published, routerVars, portfolio_paused,
                   reconcileVars, ledgerVars, pmVars, monitorVars, lockVars, controlVars>>

\* strategy_instance.on_event(&event).await and the arms of the match;
\* Execute(details, _strategy_mode): the strategy's own mode is not used
TaskOnEvent(i, outcome, details, strategy_mode) ==
    /\ tasks[i].pc = "on_event"
    /\ tasks' =
         CASE outcome \in {"Hold", "Err"} -> ToRecv(i)
           [] outcome = "Panic" -> [tasks EXCEPT ![i].pc = "dead", ![i].mailbox = <<>>]
           [] OTHER ->
                [tasks EXCEPT
                   ![i].pc = "execute_trade",
                   ![i].order = Some([details |-> details,
                                      mode |-> actual_mode(strategy_allocations,
                                                           tasks[i].sid)])]
    /\ UNCHANGED <<clock, streams, published, routerVars, portfolio_paused,
                   reconcileVars, ledgerVars, pmVars, monitorVars, lockVars, controlVars>>

\* a call to the spot, perps, bundle or signer client; seq is its place in the
\* path of the function that makes it, ok whether it returned Ok
Call(by, call, trade_id, mode, seq, ok) ==
    [by |-> by, call |-> call, trade_id |-> trade_id, mode |-> mode, seq |-> seq,
     ok |-> ok]

\* a path that leaves the bundle submit out
Mut_LivePath(side) ==
    IF side = "Short"
    THEN <<"get_pubkey", "get_or_create_user">>
    ELSE <<"get_pubkey", "get_swap_transaction", "sign_transaction",
           "get_recent_blockhash", "attach_tip">>

\* the client calls of execute_trade after log_trade_attempt, in code order
LivePath(side) ==
    IF side = "Short"
    THEN <<"get_pubkey", "get_or_create_user", "open_position">>
    ELSE <<"get_pubkey", "get_swap_transaction", "sign_transaction",
           "get_recent_blockhash", "attach_tip", "send_transaction">>

\* the calls made on a path whose k-th call is the first to fail (`?`);
\* k = 0: every call returns Ok
CallsOnPath(by, path, k, trade_id, mode) ==
    {Call(by, path[j], trade_id, mode, j, j # k) :
        j \in 1..(IF k = 0 THEN Len(path) ELSE k)}

\* execute_trade up to log_trade_attempt; quote is the spot client's answer
TaskExecuteTrade(i, quote) ==
    /\ tasks[i].pc = "execute_trade"
    /\ LET o == unwrap(tasks[i].order)
           d == o.details
           current_token_price_usd ==
               IF d.limit_price # None THEN d.limit_price ELSE quote
       IN  /\ venue_calls' =
                  IF sol_usd_price > 0 /\ d.limit_price = None
                  THEN venue_calls \cup
                           {Call("executor", "get_quote", 0, o.mode, 0, quote # None)}
                  ELSE venue_calls
           /\ IF sol_usd_price <= 0 \/ current_token_price_usd = None
              THEN /\ tasks' = ToRecv(i)
                   /\ UNCHANGED trades
              ELSE
                /\ Len(trades) < MaxTrades
                /\ trades' = log_trade_attempt(trades, d, tasks[i].sid,
                                               unwrap(current_token_price_usd), o.mode)
                /\ tasks' = [tasks EXCEPT
                               ![i].trade_id = Len(trades) + 1,
                               ![i].pc = IF o.mode = "Paper" THEN "paper_open"
                                         ELSE "live_submit"]
    /\ UNCHANGED <<clock, streams, published, routerVars, portfolio_paused,
                   reconcileVars, venue_orders, position_updates, pmVars,
                   monitorVars, lockVars, controlVars>>

\* db.open_trade(trade_id, "PAPER_TRADE")
TaskPaperOpen(i) ==
    /\ tasks[i].pc = "paper_open"
    /\ trades' = open_trade(trades, tasks[i].trade_id, "PAPER_TRADE")
    /\ tasks' = [tasks EXCEPT ![i].pc = "publish"]
    /\ UNCHANGED <<clock, streams, published, routerVars, portfolio_paused,
                   reconcileVars, venue_orders, venue_calls, position_updates, pmVars,
                   monitorVars, lockVars, controlVars>>

\* the live path: signer pubkey, then perps open (Short) or swap, sign, tip,
\* bundle submit (Long); the first `?` that fails (the fail_at-th call) ends
\* execute_trade with the row left PENDING
TaskLiveSubmit(i, fail_at) ==
    /\ tasks[i].pc = "live_submit"
    /\ LET d == unwrap(tasks[i].order).details
           path == LivePath(d.side)
       IN  /\ fail_at <= Len(path)
           /\ venue_calls' = venue_calls \cup
                  CallsOnPath("executor", path, fail_at, tasks[i].trade_id, "Live")
           /\ IF fail_at = 0
              THEN /\ venue_orders' = venue_orders \cup
                         {[trade_id |-> tasks[i].trade_id,
                           amount_usd |-> Min(d.suggested_size_usd,
                                              GlobalMaxPositionUsd)]}
                   /\ tasks' = [tasks EXCEPT ![i].pc = "live_open"]
              ELSE /\ tasks' = ToRecv(i)
                   /\ UNCHANGED venue_orders
    /\ UNCHANGED <<clock, streams, published, routerVars, portfolio_paused,
                   reconcileVars, trades, position_updates, pmVars, monitorVars, lockVars,
                   controlVars>>

\* db.open_trade(trade_id, &sig.to_string())
TaskLiveOpen(i) ==
    /\ tasks[i].pc = "live_open"
    /\ trades' = open_trade(trades, tasks[i].trade_id, "SIG")
    /\ tasks' = [tasks EXCEPT ![i].pc = "publish"]
    /\ UNCHANGED <<clock, streams, published, routerVars, portfolio_paused,
                   reconcileVars, venue_orders, venue_calls, position_updates, pmVars,
                   monitorVars, lockVars, controlVars>>

\* xadd position_updates_channel (its result is ignored)
TaskPublish(i) ==
    /\ tasks[i].pc = "publish"
    /\ position_updates' = position_updates \cup {tasks[i].trade_id}
    /\ tasks' = ToRecv(i)
    /\ UNCHANGED <<clock, streams, published, routerVars, portfolio_paused,
                   reconcileVars, trades, venue_orders, venue_calls, pmVars, monitorVars, lockVars,
                   controlVars>>

\* the steps of the strategy tasks; `outcomes`, `choices` and `quotes` are what
\* the strategies' on_event and the spot client's quote may answer, `fails` the
\* places where the live path may fail (0: nowhere)
StrategyTask(outcomes, choices, quotes, fails) ==
    \E i \in DOMAIN tasks :
        \/ TaskRecv(i)
        \/ \E outcome \in outcomes :
               TaskOnEvent(i, outcome,
                           CHOOSE d \in OrderChoices(Sizes, Sides, {None}) : TRUE, "Paper")
        \/ \E details \in choices : \E strategy_mode \in Modes :
               TaskOnEvent(i, "Execute", details, strategy_mode)
        \/ \E quote \in quotes : TaskExecuteTrade(i, quote)
        \/ TaskPaperOpen(i)
        \/ \E fail_at \in fails : TaskLiveSubmit(i, fail_at)
        \/ TaskLiveOpen(i)
        \/ TaskPublish(i)

(***************************************************************************)
(* Position Manager (position_manager/src/position_monitor.rs).            *)
(***************************************************************************)
PmReadCount == 10
MinTradesForGraduation == 100   \* MIN_TRADES_FOR_GRADUATION, default

Mut_raises_hwm(highest, p) == highest = None \/ p < unwrap(highest)

\* trade.highest_price_usd.is_none() || current_price_usd > highest.unwrap()
raises_hwm(highest, p) == highest = None \/ p > unwrap(highest)

\* highest * (1 - TSL/100), compared on both sides scaled by 100
below_trigger(p, highest) == p * 100 < highest * (100 - TrailingStopLossPercent)
above_trigger(p, highest) == p * 100 > highest * (100 - TrailingStopLossPercent)

\* the Long formula for either side
Mut_pnl_of(trade, close_price_usd) ==
    (close_price_usd - trade.entry_price_usd)
        * (trade.amount_usd \div trade.entry_price_usd)

pnl_of(trade, close_price_usd) ==
    IF trade.side = "Long"
    THEN (close_price_usd - trade.entry_price_usd)
             * (trade.amount_usd \div trade.entry_price_usd)
    ELSE (trade.entry_price_usd - close_price_usd)
             * (trade.amount_usd \div trade.entry_price_usd)

Mut_execute_close_trade(tr, id, close_price_usd) ==
    update_trade_status(tr, id, IF pnl_of(tr[id], close_price_usd) > 0
                                THEN "CLOSED_PROFIT" ELSE "CLOSED_LOSS")

\* the success path of execute_close_trade
execute_close_trade(tr, id, close_price_usd) ==
    LET pnl_usd == pnl_of(tr[id], close_price_usd)
        status == IF pnl_usd > 0 THEN "CLOSED_PROFIT" ELSE "CLOSED_LOSS"
    IN  update_trade_pnl(tr, id, status, close_price_usd, pnl_usd)

\* the client calls of execute_close_trade, in code order
ClosePath(side) ==
    IF side = "Long"
    THEN <<"get_pubkey", "get_swap_transaction", "sign_transaction">>
    ELSE <<"get_pubkey">>

RECURSIVE CheckLoop(_, _, _, _, _)
\* `for mut trade in open_trades`; a failed close (`?`) leaves the loop, and
\* is modelled as failing at its first call, get_pubkey
CheckLoop(ids, tr, calls, prices, fail_ids) ==
    IF ids = <<>> THEN [tr |-> tr, calls |-> calls]
    ELSE LET id == Head(ids)
             trade == tr[id]
         IN  IF prices[trade.token_address] = None
             THEN CheckLoop(Tail(ids), tr, calls, prices, fail_ids)
             ELSE LET p == unwrap(prices[trade.token_address])
                      tr1 == IF raises_hwm(trade.highest_price_usd, p)
                             THEN update_highest_price(tr, id, p) ELSE tr
                      hwm == unwrap(tr1[id].highest_price_usd)
                      hit == \/ trade.side = "Long" /\ below_trigger(p, hwm)
                             \/ trade.side = "Short" /\ above_trigger(p, hwm)
                      made == CallsOnPath("position_manager", ClosePath(trade.side),
                                          IF id \in fail_ids THEN 1 ELSE 0,
                                          id, trade.mode)
                  IN  IF ~hit THEN CheckLoop(Tail(ids), tr1, calls, prices, fail_ids)
                      ELSE IF id \in fail_ids
                      THEN [tr |-> tr1, calls |-> calls \cup made]
                      ELSE CheckLoop(Tail(ids), execute_close_trade(tr1, id, p),
                                     calls \cup made, prices, fail_ids)

check_open_positions(tr, calls, prices, fail_ids) ==
    CheckLoop(get_open_trades(tr), tr, calls, prices, fail_ids)

\* top of the loop: XREAD events:price from "$" is issued, the 10 s timer starts
PMIssueRead ==
    /\ pm_pc \in {"idle", "checked"}
    /\ pm_pc' = "select"
    /\ pm_read_from' = Len(streams["events:price"])
    /\ UNCHANGED <<clock, streams, published, routerVars, portfolio_paused,
                   reconcileVars, tasks, ledgerVars, pm_paper_mode, current_prices,
                   monitorVars, lockVars, controlVars>>

RECURSIVE InsertPrices(_, _)
InsertPrices(prices, msgs) ==
    IF msgs = <<>> THEN prices
    ELSE InsertPrices(
             IF Head(msgs).type = "Price"
             THEN [prices EXCEPT ![Head(msgs).token_address] = Some(Head(msgs).price_usd)]
             ELSE prices,
             Tail(msgs))

\* the read arm of select!: the entries appended since the read was issued,
\* or nothing when the 5 s block times out
PMReadReturn ==
    /\ pm_pc = "select"
    /\ pm_pc' = "idle"
    /\ LET str == streams["events:price"]
           hi == Min(Len(str), pm_read_from + PmReadCount)
       IN  current_prices' = InsertPrices(current_prices, SubSeq(str, pm_read_from + 1, hi))
    /\ UNCHANGED <<clock, streams, published, routerVars, portfolio_paused,
                   reconcileVars, tasks, ledgerVars, pm_paper_mode, pm_read_from,
                   monitorVars, lockVars, controlVars>>

\* the timer arm of select!: it wins only when the read has not completed
\* within 10 s; fail_ids are the trades whose close fails; "checked" is the
\* end of a loop iteration that took this arm
PMTimer(fail_ids) ==
    /\ pm_pc = "select"
    /\ pm_pc' = "checked"
    /\ LET checked == check_open_positions(trades, venue_calls, current_prices,
                                           fail_ids)
       IN  /\ trades' = IF pm_paper_mode THEN trades ELSE checked.tr
           /\ venue_calls' = IF pm_paper_mode THEN venue_calls ELSE checked.calls
    /\ UNCHANGED <<clock, streams, published, routerVars, portfolio_paused,
                   reconcileVars, tasks, venue_orders, position_updates, pm_paper_mode,
                   pm_read_from, current_prices, monitorVars, lockVars, controlVars>>

PositionManager ==
    \/ PMIssueRead
    \/ PMReadReturn
    \/ \E fail_ids \in SUBSET (DOMAIN trades) : PMTimer(fail_ids)

(***************************************************************************)
(* Portfolio monitor (executor/src/portfolio_monitor.rs) and the           *)
(* guardians' kill-switch publishers.                                      *)
(***************************************************************************)
\* PUBLISH kill_switch_channel: delivered to the subscription run() took
Publish(listener, payload, pub_ok) ==
    IF pub_ok THEN Append(listener, payload) ELSE listener

\* a monitor without the hysteresis: it resumes as soon as the drawdown is
\* below the threshold
Mut_PortfolioMonitorCheck(conn_ok, db_ok, pub_ok) ==
    /\ pub_ok => Len(kill_switch_listener) < MaxKill
    /\ IF ~conn_ok \/ ~db_ok
       THEN UNCHANGED <<highest_water_mark_pnl, current_pnl, portfolio_paused,
                        kill_switch_listener>>
       ELSE LET total_pnl == get_total_pnl(trades)
                hwm == Max(highest_water_mark_pnl, total_pnl)
                \* drawdown_from_peak > T, and < 0.8 * T, without division
                over == hwm > 0 /\ (hwm - total_pnl) * 100 > PortfolioStopLossPercent * hwm
                recovered ==
                    \/ hwm <= 0
                    \/ (hwm - total_pnl) * 100 < PortfolioStopLossPercent * hwm
            IN  /\ current_pnl' = total_pnl
                /\ highest_water_mark_pnl' = hwm
                /\ IF over
                   THEN IF ~portfolio_paused
                        THEN /\ kill_switch_listener' =
                                    Publish(kill_switch_listener, "PAUSE", pub_ok)
                             /\ portfolio_paused' = TRUE
                        ELSE UNCHANGED <<portfolio_paused, kill_switch_listener>>
                   ELSE IF portfolio_paused /\ recovered
                        THEN /\ kill_switch_listener' =
                                    Publish(kill_switch_listener, "RESUME", pub_ok)
                             /\ portfolio_paused' = FALSE
                        ELSE UNCHANGED <<portfolio_paused, kill_switch_listener>>
    /\ UNCHANGED <<clock, streams, published, routerVars, reconcileVars, tasks,
                   ledgerVars, pmVars, strategy_registry_stream,
                   strategy_registry_stream_id, allocations_channel,
                   allocation_stream_id, allocatorVars, lockVars>>

\* one pass of the monitor loop
PortfolioMonitorCheck(conn_ok, db_ok, pub_ok) ==
    /\ pub_ok => Len(kill_switch_listener) < MaxKill
    /\ IF ~conn_ok \/ ~db_ok
       THEN UNCHANGED <<highest_water_mark_pnl, current_pnl, portfolio_paused,
                        kill_switch_listener>>
       ELSE LET total_pnl == get_total_pnl(trades)
                hwm == Max(highest_water_mark_pnl, total_pnl)
                \* drawdown_from_peak > T, and < 0.8 * T, without division
                over == hwm > 0 /\ (hwm - total_pnl) * 100 > PortfolioStopLossPercent * hwm
                recovered ==
                    \/ hwm <= 0
                    \/ (hwm - total_pnl) * 1000 < PortfolioStopLossPercent * 8 * hwm
            IN  /\ current_pnl' = total_pnl
                /\ highest_water_mark_pnl' = hwm
                /\ IF over
                   THEN IF ~portfolio_paused
                        THEN /\ kill_switch_listener' =
                                    Publish(kill_switch_listener, "PAUSE", pub_ok)
                             /\ portfolio_paused' = TRUE
                        ELSE UNCHANGED <<portfolio_paused, kill_switch_listener>>
                   ELSE IF portfolio_paused /\ recovered
                        THEN /\ kill_switch_listener' =
                                    Publish(kill_switch_listener, "RESUME", pub_ok)
                             /\ portfolio_paused' = FALSE
                        ELSE UNCHANGED <<portfolio_paused, kill_switch_listener>>
    /\ UNCHANGED <<clock, streams, published, routerVars, reconcileVars, tasks,
                   ledgerVars, pmVars, strategy_registry_stream,
                   strategy_registry_stream_id, allocations_channel,
                   allocation_stream_id, allocatorVars, lockVars>>

PortfolioMonitor ==
    \E conn_ok, db_ok, pub_ok \in BOOLEAN : PortfolioMonitorCheck(conn_ok, db_ok, pub_ok)

\* wallet_guard monitor_wallet (balance below threshold) and risk_guardian
\* monitor_portfolio_risk (VaR breach): send_kill_switch
send_kill_switch(payload) ==
    /\ Len(kill_switch_listener) < MaxKill
    /\ kill_switch_listener' = Append(kill_switch_listener, payload)
    /\ UNCHANGED <<clock, streams, published, routerVars, portfolio_paused,
                   reconcileVars, tasks, ledgerVars, pmVars, monitorVars, lockVars,
                   strategy_registry_stream, strategy_registry_stream_id,
                   allocations_channel, allocation_stream_id, allocatorVars>>

Guardians ==
    \/ send_kill_switch("PAUSE_WALLET_LOW")
    \/ send_kill_switch("PAUSE_VAR_BREACH")

(***************************************************************************)
(* Meta-Allocator main loop (meta_allocator/src/main.rs): one epoch.       *)
(***************************************************************************)
Register(id) ==
    /\ Len(strategy_registry_stream) < MaxRegistry
    /\ strategy_registry_stream' = Append(strategy_registry_stream, id)
    /\ UNCHANGED <<clock, streams, published, routerVars, portfolio_paused,
                   reconcileVars, tasks, ledgerVars, pmVars, monitorVars, lockVars,
                   kill_switch_listener, strategy_registry_stream_id,
                   allocations_channel, allocation_stream_id, allocatorVars>>

\* f64 values of the allocator are kept as exact fractions num / den, den > 0
GCD(a, b) ==
    IF a = 0 THEN b
    ELSE CHOOSE g \in 1..b :
             /\ a % g = 0 /\ b % g = 0
             /\ \A h \in (g + 1)..b : a % h # 0 \/ b % h # 0

\* in lowest terms, so that equal values are equal records.  Operands are
\* bound through a one-element set, which evaluates each of them once.
Rat(n, d) ==
    CHOOSE r \in {[num |-> x \div g, den |-> y \div g] :
                      x \in {n}, y \in {d},
                      g \in {GCD(IF n < 0 THEN -n ELSE n, d)}} : TRUE
RatLE(a, b) == a.num * b.den <= b.num * a.den
RatMax(a, b) == IF RatLE(a, b) THEN b ELSE a
RatAdd(a, b) ==
    CHOOSE r \in {Rat(x.num * y.den + y.num * x.den, x.den * y.den) :
                      x \in {a}, y \in {b}} : TRUE
RatDiv(a, b) ==
    CHOOSE r \in {Rat(x.num * y.den, x.den * y.num) : x \in {a}, y \in {b}} : TRUE

RECURSIVE SumOf(_)
SumOf(values) ==
    IF values = <<>> THEN 0 ELSE Head(values) + SumOf(Tail(values))

RECURSIVE SumSq(_)
SumSq(values) ==
    IF values = <<>> THEN 0 ELSE Head(values) * Head(values) + SumSq(Tail(values))

\* sqrt; exact on the histories of the model, whose variance is a square
ISqrt(k) == CHOOSE r \in 0..k : r * r <= k /\ (r + 1) * (r + 1) > k

\* mean_pnl / std_dev_pnl with the sample variance
\* (n * sum of squares - sum^2) / (n * (n - 1)); 0 when the deviation is 0
sharpe_ratio(pnl_values) ==
    CHOOSE ratio \in
        {IF n > 1 /\ n * sq - sum * sum > 0
         THEN Rat(sum * n * (n - 1),
                  n * ISqrt((n * sq - sum * sum) * n * (n - 1)))
         ELSE Rat(0, 1) :
             n \in {Len(pnl_values)}, sum \in {SumOf(pnl_values)},
             sq \in {SumSq(pnl_values)}} : TRUE

\* the first component of the metrics: mean(&pnl_values) with more than one
\* record, 0.0 otherwise
mean_pnl(pnl_values) ==
    IF Len(pnl_values) > 1 THEN Rat(SumOf(pnl_values), Len(pnl_values)) ELSE Rat(0, 1)

MinSharpeForGraduation == Rat(5, 4)

Mut_current_mode(trade_count, pnl_values) ==
    IF Len(pnl_values) > 1 /\ RatLE(MinSharpeForGraduation, sharpe_ratio(pnl_values))
    THEN "Live" ELSE "Paper"

current_mode(trade_count, pnl_values) ==
    IF Len(pnl_values) > 1
    THEN IF /\ trade_count >= MinTradesForGraduation
            /\ RatLE(MinSharpeForGraduation, sharpe_ratio(pnl_values))
         THEN "Live" ELSE "Paper"
    ELSE "Paper"

\* sort_by is stable: higher Sharpe first, equal ones in the order read
SortInsert(sorted, id, metrics) ==
    LET pos == Cardinality({k \in DOMAIN sorted :
                   RatLE(metrics[id].sharpe_ratio, metrics[sorted[k]].sharpe_ratio)})
    IN  SubSeq(sorted, 1, pos) \o <<id>> \o SubSeq(sorted, pos + 1, Len(sorted))

RECURSIVE sorted_strategies(_, _)
sorted_strategies(specs, metrics) ==
    IF specs = <<>> THEN <<>>
    ELSE CHOOSE r \in
             {SortInsert(front, specs[Len(specs)], metrics) :
                  front \in {sorted_strategies(SubSeq(specs, 1, Len(specs) - 1),
                                               metrics)}} : TRUE

Mut_weight_factor(sharpe) == sharpe

weight_factor(sharpe) == RatMax(sharpe, Rat(1, 10))

RECURSIVE total_sharpe_for_weighting(_, _)
total_sharpe_for_weighting(sorted, metrics) ==
    IF sorted = <<>> THEN Rat(0, 1)
    ELSE RatAdd(weight_factor(metrics[Head(sorted)].sharpe_ratio),
                total_sharpe_for_weighting(Tail(sorted), metrics))

weight_of(sharpe, total, n) ==
    IF total.num > 0 THEN RatDiv(weight_factor(sharpe), total) ELSE Rat(1, n)

\* the first strategy of the sorted list whose mode is Live, if any: the only
\* one the loop announces (graduated_count == 0)
GraduationAlerts(sorted, metrics) ==
    LET live == {k \in DOMAIN sorted : metrics[sorted[k]].mode = "Live"}
    IN  IF live = {} THEN <<>>
        ELSE <<sorted[CHOOSE k \in live : \A j \in live : k <= j]>>

\* what the keys perf:<id>:trade_count and perf:<id>:pnl_history hold
PnlHistories ==
    {<<>>, <<5>>, <<2, 2, 2>>, <<-5, -3, -1>>, <<-1, 1, 3>>, <<1, 5, 9>>, <<3, 4, 5>>}
PaperPerf == [trade_count |-> 0, pnl_values |-> <<>>]
LivePerf == [trade_count |-> MinTradesForGraduation, pnl_values |-> <<3, 4, 5>>]
PerfData ==
    {PaperPerf, LivePerf,
     [trade_count |-> MinTradesForGraduation - 1, pnl_values |-> <<3, 4, 5>>],
     [trade_count |-> MinTradesForGraduation, pnl_values |-> <<5>>],
     [trade_count |-> MinTradesForGraduation, pnl_values |-> <<2, 2, 2>>],
     [trade_count |-> MinTradesForGraduation, pnl_values |-> <<-5, -3, -1>>],
     [trade_count |-> MinTradesForGraduation, pnl_values |-> <<-1, 1, 3>>],
     [trade_count |-> MinTradesForGraduation + 1, pnl_values |-> <<1, 5, 9>>]}

\* the specs read in this pass: the registry entries after the cursor only
NewSpecs ==
    SubSeq(strategy_registry_stream, strategy_registry_stream_id + 1,
           Len(strategy_registry_stream))

\* steps 1 and 2 of a pass over `specs`; perf[id] is what the perf keys of id
\* hold
EpochMetrics(ids, perf) ==
    [id \in ids |->
        [pnl_values |-> perf[id].pnl_values,
         trade_count |-> perf[id].trade_count,
         mean_pnl |-> mean_pnl(perf[id].pnl_values),
         sharpe_ratio |-> sharpe_ratio(perf[id].pnl_values),
         mode |-> current_mode(perf[id].trade_count, perf[id].pnl_values)]]

EpochAllocations(sorted, metrics, total) ==
    [k \in DOMAIN sorted |->
        [id |-> sorted[k],
         weight |-> weight_of(metrics[sorted[k]].sharpe_ratio, total, Len(sorted)),
         sharpe_ratio |-> metrics[sorted[k]].sharpe_ratio,
         mode |-> metrics[sorted[k]].mode]]

EpochWeighted(sorted, metrics) ==
    CHOOSE res \in
        {[metrics |-> metrics,
          graduated |-> GraduationAlerts(sorted, metrics),
          allocations |-> EpochAllocations(sorted, metrics, total),
          modes |-> [id \in DOMAIN metrics |-> metrics[id].mode]] :
              total \in {total_sharpe_for_weighting(sorted, metrics)}} : TRUE

EpochSorted(specs, metrics) ==
    CHOOSE res \in {EpochWeighted(sorted, metrics) :
                        sorted \in {sorted_strategies(specs, metrics)}} : TRUE

EpochResult(specs, perf) ==
    CHOOSE res \in
        {EpochSorted(specs, metrics) :
             metrics \in {EpochMetrics({specs[k] : k \in DOMAIN specs}, perf)}} : TRUE

\* the broker operation of a pass that returns an error, if any
AllocFailures == {"none", "connect", "registry", "set", "xadd"}

\* one pass of the loop.  A failed connect or registry read leaves the pass
\* without specs; a failed set of active_allocations is returned from main
\* with `?`; a failed xadd is logged.
AllocatorEpoch(fail_at, perf) ==
    /\ allocator_pc = "running"
    /\ IF fail_at \in {"connect", "registry"}
       THEN UNCHANGED <<strategy_registry_stream_id, allocations_channel, allocatorVars>>
       ELSE /\ strategy_registry_stream_id' = Len(strategy_registry_stream)
            /\ IF NewSpecs = <<>>
               THEN UNCHANGED <<allocations_channel, allocatorVars>>
               ELSE /\ Len(allocations_channel) < MaxSnapshots
                    /\ \E res \in {EpochResult(NewSpecs, perf)} :
                           /\ alerts' = alerts \o res.graduated
                           /\ IF fail_at = "set"
                              THEN /\ allocator_pc' = "terminated"
                                   /\ UNCHANGED <<strategy_metrics, allocations,
                                                  allocations_channel>>
                              ELSE /\ strategy_metrics' = res.metrics
                                   /\ allocations' = res.allocations
                                   /\ allocations_channel' =
                                          IF fail_at = "xadd" THEN allocations_channel
                                          ELSE Append(allocations_channel, res.modes)
                                   /\ UNCHANGED allocator_pc
    /\ UNCHANGED <<clock, streams, published, routerVars, portfolio_paused,
                   reconcileVars, tasks, ledgerVars, pmVars, monitorVars, lockVars,
                   kill_switch_listener, strategy_registry_stream, allocation_stream_id>>

MetaAllocator ==
    \/ \E id \in AllocIds : Register(id)
    \/ \E perf \in [AllocIds -> {PaperPerf, LivePerf}] : AllocatorEpoch("none", perf)

(***************************************************************************)
(* The tasks of the executor process at their mutexes.                     *)
(***************************************************************************)
\* the next lock operation of task t
LockStep(t) ==
    /\ lock_pc[t] \in DOMAIN LockProgram(t)
    /\ LET o == LockProgram(t)[lock_pc[t]]
           last == lock_pc[t] = Len(LockProgram(t))
           next == IF ~last THEN lock_pc[t] + 1
                   ELSE IF t = "state_handler" THEN Returned ELSE LoopStart(t)
       IN  CASE o.op = "lock" ->
                  /\ \A u \in LockTasks : o.lock \notin held[u]
                  /\ held' = [held EXCEPT ![t] = @ \cup {o.lock}]
                  /\ lock_pc' = [lock_pc EXCEPT ![t] = next]
             [] o.op = "blocking_lock" ->
                  /\ held' = [held EXCEPT ![t] = {}]
                  /\ lock_pc' = [lock_pc EXCEPT ![t] = Panicked]
             [] OTHER ->
                  /\ held' = [held EXCEPT ![t] = @ \ {o.lock}]
                  /\ lock_pc' = [lock_pc EXCEPT ![t] = next]
    /\ UNCHANGED <<clock, streams, published, routerVars, portfolio_paused,
                   reconcileVars, tasks, ledgerVars, pmVars, monitorVars, controlVars>>

\* GET /api/v1/state
StateRequest ==
    /\ lock_pc["state_handler"] \in {Panicked, Returned, NoRequest}
    /\ lock_pc' = [lock_pc EXCEPT !["state_handler"] = 1]
    /\ UNCHANGED <<held, clock, streams, published, routerVars, portfolio_paused,
                   reconcileVars, tasks, ledgerVars, pmVars, monitorVars, controlVars>>

(***************************************************************************)
(* Specifications.  Each runs the same operations under one part of the    *)
(* environment, to keep the state space finite and small.                  *)
(***************************************************************************)
Ingesters(names, lags, prices, sol_prices, unparsable) ==
    \E s \in names :
        \E m \in MessagesFor(s, lags, prices, sol_prices, unparsable) : Ingest(s, m)

RouterOk ==
    \/ RunRead
    \/ RunProcessMessage
    \/ RunSend
    \/ RunLoopEnd

RouterErr ==
    \/ RunReadErr
    \/ \E ok \in BOOLEAN : RunReconnect(ok)

InitLive == Init /\ ~pm_paper_mode

\* The ledger: one strategy trading live, the Position Manager closing what
\* it opened.
NextLedger ==
    \/ Ingesters({"events:price"}, {0}, {90, 120}, {}, FALSE)
    \/ RouterOk
    \/ Reconcile([{"momentum_5m"} -> {"Live"}])
    \/ StrategyTask({"Hold"}, OrderChoices({1800}, Sides, {None}), {None, Some(100)}, {0, 1})
    \/ PositionManager

SpecLedger == InitLive /\ [][NextLedger]_vars

\* the trailing stop: live trades of either side entered at a limit price of
\* 100 or 120, prices below, at and above the entries, closes that may fail
NextStop ==
    \/ Ingesters({"events:price"}, {0}, {90, 110, 120}, {}, FALSE)
    \/ RouterOk
    \/ Reconcile([{"momentum_5m"} -> {"Live"}])
    \/ StrategyTask({"Hold"}, OrderChoices({1800}, Sides, {Some(100), Some(120)}),
                    {Some(100)}, {0})
    \/ PositionManager

SpecStop == InitLive /\ [][NextStop]_vars

\* the Position Manager's loop under the scheduling the code gives it: a read
\* that was issued completes (with data or on its 5 s block timeout) and the
\* loop starts its next iteration; the 10 s sleep is created anew in every
\* iteration and nothing makes it win against a read that completes
FairMonitor ==
    /\ WF_vars(PMIssueRead)
    /\ WF_vars(PMReadReturn)

SpecMonitor == InitLive /\ [][NextLedger]_vars /\ FairMonitor

\* The router: every stream, strategies that come and go
\* and do not trade.
NextRouter ==
    \/ Ingesters(StreamNames, {0}, {100}, {150}, FALSE)
    \/ RouterOk
    \/ Reconcile({[id \in Registry |-> "Paper"], [id \in {"momentum_5m"} |-> "Paper"]})
    \/ StrategyTask({"Hold", "Panic"}, {}, {}, {})

SpecRouter == InitLive /\ [][NextRouter]_vars

\* Staleness: events of any age against a running clock.
NextStale ==
    \/ Tick
    \/ Ingesters({"events:price", "events:social"}, Lags, {100}, {}, TRUE)
    \/ RouterOk
    \/ Reconcile([{"airdrop_rotation"} -> {"Paper"}])
    \/ StrategyTask({"Hold"}, {}, {}, {})

SpecStale == InitLive /\ [][NextStale]_vars

\* The pause flag: its writers against one trading strategy.
NextPause ==
    \/ Ingesters({"events:price"}, {0}, {100}, {}, FALSE)
    \/ RouterOk
    \/ RouterErr
    \/ Reconcile([{"momentum_5m"} -> Modes])
    \/ StrategyTask({"Hold"}, OrderChoices({3600}, {"Long"}, {None, Some(100)}),
                    {None, Some(100)}, {0, 1})
    \/ PortfolioMonitor
    \/ Guardians

SpecPause == InitLive /\ [][NextPause]_vars

\* The program as it runs: run() as written calls neither reconcile_strategies
\* nor any handler of the kill-switch subscription, so no strategy task and no
\* mailbox exists and dispatch_event has no sender to send to.  The loops of
\* run() and of the Meta-Allocator are scheduled by the tokio runtime (weak
\* fairness); the ingesters and guardians publish when they please.
NextControl ==
    \/ Ingesters(StreamNames, {0}, {100}, {150}, TRUE)
    \/ RunRead
    \/ RunProcessMessage
    \/ RunLoopEnd
    \/ Guardians
    \/ MetaAllocator

FairControl ==
    /\ WF_vars(RunRead)
    /\ WF_vars(RunProcessMessage)
    /\ WF_vars(RunLoopEnd)
    /\ WF_vars(\E perf \in [AllocIds -> {PaperPerf, LivePerf}] :
                   AllocatorEpoch("none", perf))

SpecControl == Init /\ [][NextControl]_vars /\ FairControl

\* The reconciler: snapshots over every id, known to the registry or not,
\* against strategies that receive events, hold or panic.  The loops of run()
\* and of the strategy tasks are scheduled by the tokio runtime.
\* the mode of execution: one strategy allocated Paper or Live or not at all,
\* market orders of one size and side
NextMode ==
    \/ Ingesters({"events:price"}, {0}, {100}, {}, FALSE)
    \/ RouterOk
    \/ Reconcile(Snapshots({"momentum_5m"}, Modes))
    \/ StrategyTask({"Hold"}, OrderChoices({1800}, {"Long"}, {Some(100)}),
                    {Some(100)}, {0})

SpecMode == InitLive /\ [][NextMode]_vars

\* order execution: one strategy allocated Paper or Live, orders of either side
\* and size with or without a limit price, a quote that may fail and a live
\* path that may fail at any of its calls
NextOrder ==
    \/ Ingesters({"events:price"}, {0}, {100}, {}, FALSE)
    \/ RouterOk
    \/ Reconcile([{"momentum_5m"} -> Modes])
    \/ StrategyTask({"Hold"}, OrderChoices(Sizes, Sides, {None, Some(100)}),
                    {None, Some(100)}, 0..6)

SpecOrder == InitLive /\ [][NextOrder]_vars

\* paper trading: one strategy allocated Paper, orders with or without a limit
\* price, and the Position Manager closing the rows
NextPaper ==
    \/ Ingesters({"events:price"}, {0}, {90, 120}, {}, FALSE)
    \/ RouterOk
    \/ Reconcile([{"momentum_5m"} -> {"Paper"}])
    \/ StrategyTask({"Hold"}, OrderChoices({1800}, Sides, {None, Some(100)}),
                    {None, Some(100)}, {0})
    \/ PositionManager

SpecPaper == InitLive /\ [][NextPaper]_vars

\* a broker outage: reads of the market streams that fail and reconnects that
\* fail or succeed, next to a strategy that trades, the Position Manager that
\* closes its rows and the portfolio monitor, the other writer of the pause flag
NextOutage ==
    \/ Ingesters({"events:price"}, {0}, {110}, {}, FALSE)
    \/ RouterOk
    \/ RouterErr
    \/ Reconcile([{"momentum_5m"} -> {"Paper"}])
    \/ StrategyTask({"Hold"}, OrderChoices({700, 1800}, {"Short"}, {Some(100), Some(120)}),
                    {Some(100)}, {0})
    \/ PositionManager
    \/ \E pub_ok \in BOOLEAN : PortfolioMonitorCheck(TRUE, TRUE, pub_ok)

\* every task that can run does: the run loop, the reconnect attempt, the
\* strategy tasks and the monitor's 30 s pass
FairOutage ==
    /\ WF_vars(RunRead)
    /\ WF_vars(RunProcessMessage)
    /\ WF_vars(RunSend)
    /\ WF_vars(RunLoopEnd)
    /\ WF_vars(\E ok \in BOOLEAN : RunReconnect(ok))
    /\ WF_vars(StrategyTask({"Hold"}, {}, {}, {}))
    /\ WF_vars(\E pub_ok \in BOOLEAN : PortfolioMonitorCheck(TRUE, TRUE, pub_ok))

SpecOutage == InitLive /\ [][NextOutage]_vars /\ FairOutage

\* the drawdown rule: the portfolio monitor with every outcome of its broker
\* connection, its ledger read and its publish, next to a strategy whose rows
\* the Position Manager closes at a profit or a loss, and the reconnect arm of
\* run(), the other writer of the flag
NextDrawdown ==
    \/ Ingesters({"events:price"}, {0}, {110}, {}, FALSE)
    \/ RouterOk
    \/ RouterErr
    \/ Reconcile([{"momentum_5m"} -> {"Paper"}])
    \/ StrategyTask({"Hold"}, OrderChoices({700, 1800}, {"Short"}, {Some(100), Some(120)}),
                    {Some(100)}, {0})
    \/ PositionManager
    \/ PortfolioMonitor

SpecDrawdown == InitLive /\ [][NextDrawdown]_vars

NextReconcile ==
    \/ Ingesters({"events:price"}, {0}, {100}, {}, FALSE)
    \/ RouterOk
    \/ Reconcile(Snapshots(AllocIds, {"Paper"}))
    \/ StrategyTask({"Hold", "Panic"}, {}, {}, {})

FairReconcile ==
    /\ WF_vars(RunRead)
    /\ WF_vars(RunProcessMessage)
    /\ WF_vars(RunSend)
    /\ WF_vars(RunLoopEnd)
    /\ WF_vars(StrategyTask({"Hold"}, {}, {}, {}))

SpecReconcile == InitLive /\ [][NextReconcile]_vars /\ FairReconcile

\* The whole platform, every environment choice open.
Next ==
    \/ Tick
    \/ Ingesters(StreamNames, Lags, Prices, SolPrices, TRUE)
    \/ RouterOk
    \/ RouterErr
    \/ Reconcile(Snapshots(AllocIds, Modes))
    \/ StrategyTask({"Hold", "Err", "Panic"},
                    OrderChoices(Sizes, Sides, {None, Some(100)}),
                    {None} \cup {Some(p) : p \in Prices}, 0..6)
    \/ PositionManager
    \/ PortfolioMonitor
    \/ Guardians
    \/ MetaAllocator

Spec == Init /\ [][Next]_vars

(***************************************************************************)
(* Properties.                                                             *)
(***************************************************************************)
Closed == {"CLOSED_PROFIT", "CLOSED_LOSS"}

\* C1: the status of a ledger row only moves PENDING -> OPEN -> CLOSED_PROFIT or
\* CLOSED_LOSS, CANCELED is entered only from PENDING, and a new row starts
\* PENDING; no step moves a row backwards or from PENDING straight to CLOSED_*.
C1_StatusTransitions ==
    [][\A id \in DOMAIN trades' :
          IF id \in DOMAIN trades
          THEN LET a == trades[id].status
                   b == trades'[id].status
               IN  \/ a = b
                   \/ a = "PENDING" /\ b \in {"OPEN", "CANCELED"}
                   \/ a = "OPEN" /\ b \in Closed
          ELSE trades'[id].status = "PENDING"]_vars

\* C1 witness: a row that went through the whole life cycle (it carries the
\* signature of its opening and is closed) next to a row still PENDING.
C1_RowClosedAfterOpen ==
    \E id, other \in DOMAIN trades :
        /\ trades[id].status \in Closed
        /\ trades[id].signature # NULL
        /\ trades[other].status = "PENDING"

\* C2: highest_price_usd is set and at least entry_price_usd in every state, for
\* both sides, and no step lowers it on a row that is OPEN.
C2_HighestPrice ==
    /\ [](\A id \in DOMAIN trades :
             /\ trades[id].highest_price_usd # None
             /\ unwrap(trades[id].highest_price_usd) >= trades[id].entry_price_usd)
    /\ [][\A id \in DOMAIN trades :
             trades[id].status = "OPEN" =>
                 unwrap(trades'[id].highest_price_usd)
                     >= unwrap(trades[id].highest_price_usd)]_vars

\* C2 witness: the Position Manager has raised the high-water mark of a Short
\* row and of a Long row above their entry price.
C2_HighestRaised ==
    \E id, other \in DOMAIN trades :
        /\ trades[id].side = "Short"
        /\ unwrap(trades[id].highest_price_usd) > trades[id].entry_price_usd
        /\ trades[other].side = "Long"
        /\ unwrap(trades[other].highest_price_usd) > trades[other].entry_price_usd

\* C3: a row has close_time, close_price_usd and pnl_usd set if and only if its
\* status is CLOSED_PROFIT or CLOSED_LOSS (all three set when closed, none set
\* otherwise).
C3_CloseFieldsIffClosed ==
    \A id \in DOMAIN trades :
        IF trades[id].status \in Closed
        THEN /\ trades[id].close_time # None
             /\ trades[id].close_price_usd # None
             /\ trades[id].pnl_usd # None
        ELSE /\ trades[id].close_time = None
             /\ trades[id].close_price_usd = None
             /\ trades[id].pnl_usd = None

\* C3 witness: a row closed at a loss with its close fields set, next to an
\* OPEN row without them.
C3_ClosedRowHasFields ==
    \E id, other \in DOMAIN trades :
        /\ trades[id].status = "CLOSED_LOSS"
        /\ trades[id].pnl_usd # None
        /\ trades[other].status = "OPEN"
        /\ trades[other].pnl_usd = None

PauseMessages == {"PAUSE", "PAUSE_WALLET_LOW", "PAUSE_VAR_BREACH"}

\* C4: once a kill-switch message whose payload starts with PAUSE is the latest
\* delivered to the executor's subscription, the pause flag becomes true.
C4_PauseMessageSetsFlag ==
    (kill_switch_listener # <<>> /\ Last(kill_switch_listener) \in PauseMessages)
        ~> portfolio_paused

\* C5: while the pause flag is set, on_event is still called on every event a
\* strategy task takes out of its mailbox.
C5_OnEventCalledOnEveryEvent ==
    [][\A i \in DOMAIN tasks :
          (tasks[i].pc = "recv" /\ Len(tasks'[i].mailbox) < Len(tasks[i].mailbox))
              => tasks'[i].pc = "on_event"]_vars

\* C6 as stated: no ledger row is created and no venue order is submitted in a
\* step taken while the pause flag is true.
C6_NoOrderWhilePaused ==
    [][(Len(trades') > Len(trades) \/ venue_orders' # venue_orders)
          => ~portfolio_paused]_vars

\* C6 as amended: a ledger row is created and a venue order is submitted only
\* by a task iteration whose own read of the pause flag, taken when it received
\* the event, returned false.
C6_NoOrderAfterPausedRead ==
    [][\A i \in DOMAIN tasks :
          (/\ tasks[i].pc \in {"execute_trade", "live_submit"}
           /\ tasks'[i].pc # tasks[i].pc
           /\ (Len(trades') > Len(trades) \/ venue_orders' # venue_orders))
              => ~tasks[i].is_paused]_vars

\* C6 witness: a venue order was submitted for a row while the pause flag,
\* set after the task's read of it, is true.
C6_OrderSubmittedUnderPause ==
    \E i \in DOMAIN tasks :
        /\ tasks[i].pc = "live_open"
        /\ ~tasks[i].is_paused
        /\ portfolio_paused
        /\ \E o \in venue_orders : o.trade_id = tasks[i].trade_id

\* C7: every event in a strategy's mailbox has a type the strategy subscribes
\* to, and no mailbox ever holds a SolPrice or DataSourceHeartbeat event.
C7_MailboxWithinSubscriptions ==
    \A i \in DOMAIN tasks :
        \A k \in DOMAIN tasks[i].mailbox :
            /\ tasks[i].mailbox[k] \in subscriptions(tasks[i].sid)
            /\ tasks[i].mailbox[k] \notin {"SolPrice", "DataSourceHeartbeat"}

\* C7 witness: the router consumed a SolPrice event itself and delivered an
\* event to the mailbox of one of the two strategies running.
C7_RoutedAndConsumed ==
    /\ market_stream_ids["events:sol_price"] > 0
    /\ \E i, j \in DOMAIN tasks :
           /\ tasks[i].sid # tasks[j].sid
           /\ tasks[i].mailbox # <<>>

\* the messages of type t on the broker
NumOfType(t) ==
    Cardinality({p \in UNION {{<<s, k>> : k \in DOMAIN streams[s]} : s \in StreamNames} :
                    streams[p[1]][p[2]].type = t})

\* C8: the stale counter of a type grows by one per stale event of that type,
\* so it never exceeds the number of events of the type, however many read
\* cycles follow.
C8_StaleCountedOnce ==
    \A t \in EventTypes : STALE_EVENTS_TOTAL[t] <= NumOfType(t)

\* C9: the router never waits inside dispatch_event: whenever a delivery is
\* pending, its send can be taken at once, whatever the mailbox holds.
C9_RouterNeverWaits ==
    dispatching # <<>> => ENABLED RunSend

\* C10: once a snapshot is published, the executor consumes the allocation
\* stream up to it and stores the latest snapshot as its allocations.
C10_SnapshotApplied ==
    (allocations_channel # <<>>)
        ~> (/\ allocations_channel # <<>>
            /\ allocation_stream_id = Len(allocations_channel)
            /\ strategy_allocations = Last(allocations_channel))

Range(f) == {f[x] : x \in DOMAIN f}

C12_ReconcileIdempotent ==
    LET A == strategy_allocations
        init_fail == (DOMAIN A \cap Registry) \ DOMAIN active_strategies
    IN  \A ord2 \in Orders(DOMAIN A) :
          LET stopped == StopStrategies(active_strategies, event_router_senders,
                                        tasks, DOMAIN A)
              again == StartStrategies(ord2, stopped.act, stopped.snd, tasks, init_fail)
          IN  /\ DOMAIN active_strategies \ DOMAIN A = {}
              /\ DOMAIN again.act = DOMAIN active_strategies
              /\ \A id \in DOMAIN again.act : again.act[id] = active_strategies[id]
              /\ again.snd = event_router_senders
              /\ again.tsk = tasks

\* C12 witness: a snapshot with a started strategy, a strategy whose init
\* failed and an unknown id has been applied.
C12_SnapshotApplied ==
    /\ DOMAIN strategy_allocations = AllocIds
    /\ Cardinality(DOMAIN active_strategies) = 1
    /\ Len(tasks) = 1

\* the instance i was started and a later reconcile removed it from the active set
Removed(i) ==
    i <= Len(tasks) /\ i \notin Range(active_strategies)

\* the router holds a mailbox handle of instance i
InRouterLists(i) ==
    \E t \in EventTypes : \E k \in DOMAIN event_router_senders[t] :
        event_router_senders[t][k] = i

\* C13: an instance that a reconcile removed eventually stops for good: its
\* mailbox handle leaves the router's lists, so that no further event reaches
\* its task.
C13_RemovedInstanceStops ==
    \A i \in 1..MaxInst : Removed(i) ~> ~InRouterLists(i)

C15_SizeWithinGlobalMax ==
    /\ \A id \in DOMAIN trades : trades[id].amount_usd <= GlobalMaxPositionUsd
    /\ \A o \in venue_orders : o.amount_usd <= GlobalMaxPositionUsd

C17_NoVenueCallForPaper ==
    \A c \in venue_calls : c.mode # "Paper"

\* C18: when the quote, the signer or a venue call fails while a signal is
\* executed, the signal has a ledger row and the row stays PENDING, nothing is
\* published for it, no call is made again and the task returns to its mailbox.
C18_FailedSignalLeavesPendingRow ==
    [][\A i \in DOMAIN tasks :
         /\ (tasks[i].pc = "execute_trade" /\ tasks'[i].pc = "recv"
               /\ sol_usd_price > 0)
                => /\ Len(trades') = Len(trades) + 1
                   /\ Last(trades').status = "PENDING"
                   /\ position_updates' = position_updates
         /\ (tasks[i].pc = "live_submit" /\ tasks'[i].pc # "live_submit")
                => \/ tasks'[i].pc = "live_open"
                   \/ /\ tasks'[i].pc = "recv"
                      /\ trades' = trades
                      /\ trades[tasks[i].trade_id].status = "PENDING"
                      /\ venue_orders' = venue_orders
                      /\ position_updates' = position_updates]_vars

\* the executor's call `call` for trade id returned Ok, as the seq-th of its path
CalledOk(id, call, seq) ==
    Call("executor", call, id, "Live", seq, TRUE) \in venue_calls

StopLossApplies ==
    /\ highest_water_mark_pnl > 0
    /\ (highest_water_mark_pnl - get_total_pnl(trades)) * 100
           > PortfolioStopLossPercent * highest_water_mark_pnl

\* C20: once the reads of the market streams stop failing, a pause flag that
\* is set is eventually cleared (or is held by the portfolio stop-loss): a
\* transient outage does not leave signal acceptance paused forever.
C20_PauseClearedAfterOutage ==
    (<>[][~RunReadErr]_vars)
        => (portfolio_paused ~> (~portfolio_paused \/ StopLossApplies))

\* the ledger holds an OPEN trade
HasOpenTrade ==
    \E id \in DOMAIN trades : trades[id].status = "OPEN"

\* C21: in live mode, while the ledger holds OPEN trades the check of the open
\* positions runs again: from any state with an OPEN trade a loop iteration
\* that takes the timer arm follows (or the trade is no longer OPEN), also when
\* every read of the price stream completes.
C21_CheckRunsAgain ==
    (HasOpenTrade /\ pm_pc # "checked") ~> (pm_pc = "checked" \/ ~HasOpenTrade)

\* a step of the Position Manager that runs check_open_positions
IsCheck ==
    pm_pc = "select" /\ pm_pc' = "checked" /\ ~pm_paper_mode

\* the Position Manager's calls for trade id
CloseCalls(calls, id) ==
    {c \in calls : c.by = "position_manager" /\ c.trade_id = id}

\* the cached price p is below highest * (1 - tau), compared times 100
BelowTrailingStop(p, highest) ==
    p * 100 < highest * (100 - TrailingStopLossPercent)

\* C22: at a position check, the close of an OPEN Long trade with a cached
\* price p is issued if and only if p is below highest_price * (1 - tau), where
\* highest_price is the larger of the stored highest price (the entry price and
\* the prices of the earlier checks) and p.
C22_LongClosedIffBelowTrigger ==
    [][IsCheck =>
         \A id \in DOMAIN trades :
           (/\ trades[id].status = "OPEN"
            /\ trades[id].side = "Long"
            /\ current_prices[trades[id].token_address] # None)
             => LET p == unwrap(current_prices[trades[id].token_address])
                    highest == Max(unwrap(trades[id].highest_price_usd), p)
                IN  /\ BelowTrailingStop(p, highest)
                         => CloseCalls(venue_calls', id) # {}
                    /\ (CloseCalls(venue_calls', id) # CloseCalls(venue_calls, id)
                          \/ trades'[id].status # "OPEN")
                         => BelowTrailingStop(p, highest)]_vars

\* C23: the trailing stop triggers exactly at the threshold: at a check, an
\* OPEN Long trade whose cached price equals highest_price * (1 - tau) has its
\* close issued.
C23_ClosedAtThreshold ==
    [][IsCheck =>
         \A id \in DOMAIN trades :
           (/\ trades[id].status = "OPEN"
            /\ trades[id].side = "Long"
            /\ current_prices[trades[id].token_address] # None)
             => LET p == unwrap(current_prices[trades[id].token_address])
                    highest == Max(unwrap(trades[id].highest_price_usd), p)
                IN  p * 100 = highest * (100 - TrailingStopLossPercent)
                        => CloseCalls(venue_calls', id) # {}]_vars

\* C24: for a Short trade the stored extreme is the lowest price seen since
\* entry (it never lies above the entry price), and at a check the close of an
\* OPEN Short is issued only when the cached price p is above
\* lowest_price * (1 + tau), lowest_price being the smaller of the stored
\* extreme and p: a Short whose price fell or stayed flat is not closed.
C24_ShortTracksLowest ==
    /\ [](\A id \in DOMAIN trades :
            trades[id].side = "Short"
                => unwrap(trades[id].highest_price_usd) <= trades[id].entry_price_usd)
    /\ [][IsCheck =>
            \A id \in DOMAIN trades :
              (/\ trades[id].status = "OPEN"
               /\ trades[id].side = "Short"
               /\ current_prices[trades[id].token_address] # None
               /\ \/ CloseCalls(venue_calls', id) # CloseCalls(venue_calls, id)
                  \/ trades'[id].status # "OPEN")
                => LET p == unwrap(current_prices[trades[id].token_address])
                       lowest == Min(unwrap(trades[id].highest_price_usd), p)
                   IN  p * 100 > lowest * (100 + TrailingStopLossPercent)]_vars

\* C25: when the Position Manager closes a trade at the cached price p_close,
\* the row records close_price_usd = p_close and
\* pnl_usd = (p_close - p_entry) * size / p_entry for a Long,
\* (p_entry - p_close) * size / p_entry for a Short (stated without the
\* division), and the status is CLOSED_PROFIT exactly when pnl_usd > 0,
\* CLOSED_LOSS otherwise.
C25_PnlOnClose ==
    [][\A id \in DOMAIN trades :
         (trades[id].status = "OPEN" /\ trades'[id].status # "OPEN")
           => LET t == trades[id]
                  p_close == unwrap(current_prices[t.token_address])
                  pnl == unwrap(trades'[id].pnl_usd)
              IN  /\ IsCheck
                  /\ trades'[id].close_price_usd = Some(p_close)
                  /\ pnl * t.entry_price_usd =
                         IF t.side = "Long"
                         THEN (p_close - t.entry_price_usd) * t.amount_usd
                         ELSE (t.entry_price_usd - p_close) * t.amount_usd
                  /\ trades'[id].status =
                         IF pnl > 0 THEN "CLOSED_PROFIT" ELSE "CLOSED_LOSS"]_vars

\* C25 witness: one row was closed with a profit, another with a pnl of 0 and
\* the status CLOSED_LOSS.
C25_ProfitAndZero ==
    \E a, b \in DOMAIN trades :
        /\ trades[a].status = "CLOSED_PROFIT" /\ unwrap(trades[a].pnl_usd) > 0
        /\ trades[b].status = "CLOSED_LOSS" /\ trades[b].pnl_usd = Some(0)

\* The allocator alone: registrations and epochs over every kind of
\* performance data.
NextAllocator ==
    \/ \E id \in AllocIds : Register(id)
    \/ \E perf \in [AllocIds -> PerfData] : AllocatorEpoch("none", perf)

SpecAllocator == Init /\ [][NextAllocator]_vars

\* The allocator with broker errors at every step of a pass.
NextAllocFail ==
    \/ \E id \in AllocIds : Register(id)
    \/ \E fail_at \in AllocFailures, perf \in [AllocIds -> {PaperPerf, LivePerf}] :
           AllocatorEpoch(fail_at, perf)

SpecAllocFail == Init /\ [][NextAllocFail]_vars

\* The tasks of the executor process at their mutexes; every task that can
\* take its next step does.
NextLocks ==
    \/ \E t \in LockTasks : LockStep(t)
    \/ StateRequest

FairLocks == \A t \in LockTasks : WF_vars(LockStep(t))

SpecLocks == Init /\ [][NextLocks]_vars /\ FairLocks

\* the price of the last Price event for token tok among msgs, None without one
RECURSIVE LastPrice(_, _)
LastPrice(msgs, tok) ==
    IF msgs = <<>> THEN None
    ELSE LET m == msgs[Len(msgs)]
         IN  IF m.type = "Price" /\ m.token_address = tok
             THEN Some(m.price_usd)
             ELSE LastPrice(SubSeq(msgs, 1, Len(msgs) - 1), tok)

\* C26: when the position manager issues a read of the price stream, it has
\* handled the stream up to that point: the cached price of a token it has
\* read a price of is the price of the most recent Price event appended
\* before the read, so no Price event appended between two reads has been
\* skipped.
C26_CacheIsLatestPrice ==
    pm_pc = "select" =>
        \A tok \in Tokens :
            current_prices[tok] # None =>
                current_prices[tok]
                    = LastPrice(SubSeq(streams["events:price"], 1, pm_read_from), tok)


RECURSIVE RatSum(_, _)
RatSum(w, k) ==
    IF k = 0 THEN Rat(0, 1) ELSE RatAdd(RatSum(w, k - 1), w[k])

\* C28: in a published allocation list the weight of strategy i is
\* max(sharpe_i, 0.1) / sum over j of max(sharpe_j, 0.1); every weight lies
\* in [0, 1] and the weights of the list sum to 1.
C28_WeightsNormalised ==
    LET floored == [k \in DOMAIN allocations |->
                       IF allocations[k].sharpe_ratio.num * 10
                              >= allocations[k].sharpe_ratio.den
                       THEN allocations[k].sharpe_ratio ELSE Rat(1, 10)]
        total == RatSum(floored, Len(allocations))
        weights == [k \in DOMAIN allocations |-> allocations[k].weight]
        sum == RatSum(weights, Len(allocations))
    IN  /\ \A k \in DOMAIN allocations :
               LET w == allocations[k].weight
               IN  /\ w.den > 0
                   /\ w.num * floored[k].den * total.num
                          = floored[k].num * total.den * w.den
                   /\ 0 <= w.num /\ w.num <= w.den
        /\ allocations # <<>> => sum.num = sum.den

\* a list of two strategies, one weighted by its Sharpe ratio and one with a
\* negative ratio weighted by the floor
C28_FlooredAndWeighted ==
    /\ Len(allocations) = 2
    /\ allocations[1].sharpe_ratio.num > allocations[1].sharpe_ratio.den
    /\ allocations[2].sharpe_ratio.num < 0
    /\ allocations[2].weight.num > 0

\* C29: every published snapshot is complete: the ids of the allocation list
\* are the strategy ids the allocator has read from the registry up to that
\* epoch, the ids read in earlier epochs included.
C29_SnapshotComplete ==
    allocations # <<>> =>
        {allocations[k].id : k \in DOMAIN allocations}
            = {strategy_registry_stream[k] : k \in 1..strategy_registry_stream_id}

\* the strategies some published snapshot has in Live mode
GraduatedIds ==
    {id \in AllocIds : \E k \in DOMAIN allocations_channel :
        id \in DOMAIN allocations_channel[k] /\ allocations_channel[k][id] = "Live"}

\* C30: a graduation alert has been sent exactly once for every strategy a
\* published snapshot has in Live mode, also when several strategies become
\* Live in the same epoch, and for no other strategy.
C30_OneAlertPerGraduation ==
    /\ \A id \in GraduatedIds : Cardinality({k \in DOMAIN alerts : alerts[k] = id}) = 1
    /\ \A k \in DOMAIN alerts : alerts[k] \in GraduatedIds

\* C31: a broker error at any step of an allocator epoch never terminates
\* the Meta-Allocator; its loop is still running afterwards.
C31_AllocatorKeepsRunning ==
    allocator_pc = "running"

\* the task of strategy id has panicked and id is still in the active set
Crashed(id) ==
    /\ id \in DOMAIN active_strategies
    /\ tasks[active_strategies[id]].pc = "dead"

\* C32: a panic inside one strategy's on_event ends that strategy's task
\* only: the step changes no other task, nor the active set, nor the router;
\* a send to the crashed task never makes the router wait; and a reconcile
\* whose snapshot still holds the crashed strategy keeps it in the active set
\* with its old task and starts no new task for it.
C32_PanicEndsOneTaskOnly ==
    /\ []((dispatching # <<>> /\ tasks[Head(dispatching)].pc = "dead")
              => ENABLED RunSend)
    /\ [][/\ \A i \in DOMAIN tasks :
                (tasks[i].pc # "dead" /\ tasks'[i].pc = "dead") =>
                    /\ \A j \in DOMAIN tasks \ {i} : tasks'[j] = tasks[j]
                    /\ UNCHANGED <<reconcileVars, routerVars>>
          /\ \A id \in DOMAIN active_strategies :
                (Crashed(id) /\ id \in DOMAIN strategy_allocations') =>
                    /\ id \in DOMAIN active_strategies'
                    /\ active_strategies'[id] = active_strategies[id]
                    /\ \A j \in DOMAIN tasks' \ DOMAIN tasks : tasks'[j].sid # id]_vars

\* a crashed strategy still in the active set and in the stored snapshot,
\* next to a running strategy that holds an event in its mailbox
C32_CrashedBesideRunning ==
    \E id \in DOMAIN active_strategies :
        /\ Crashed(id)
        /\ id \in DOMAIN strategy_allocations
        /\ \E j \in DOMAIN tasks : tasks[j].pc # "dead" /\ tasks[j].mailbox # <<>>

\* C33: the published allocation list is ordered by descending Sharpe
\* ratio, and two strategies with equal Sharpe ratio are ordered by
\* descending mean pnl.
C33_SortedBySharpeThenPnl ==
    \A j, k \in DOMAIN allocations :
        j < k =>
            /\ RatLE(allocations[k].sharpe_ratio, allocations[j].sharpe_ratio)
            /\ allocations[j].sharpe_ratio = allocations[k].sharpe_ratio
                   => RatLE(strategy_metrics[allocations[k].id].mean_pnl,
                            strategy_metrics[allocations[j].id].mean_pnl)

\* the lock operation task t is about to perform, if any
NextLockOp(t) ==
    IF lock_pc[t] \in DOMAIN LockProgram(t) THEN <<LockProgram(t)[lock_pc[t]]>> ELSE <<>>

WaitsFor(t, lock) ==
    /\ NextLockOp(t) # <<>>
    /\ NextLockOp(t)[1].op = "lock"
    /\ NextLockOp(t)[1].lock = lock

\* C34: no task acquires the allocations-map lock while it holds the
\* pause-flag lock, and there is never a pair of tasks of which one holds the
\* pause flag and waits for the allocations map while the other holds the
\* allocations map and waits for the pause flag.
C34_AllocationsNeverUnderPause ==
    /\ [](\A t, u \in LockTasks :
             ~(/\ "portfolio_paused" \in held[t]
               /\ WaitsFor(t, "strategy_allocations")
               /\ "strategy_allocations" \in held[u]
               /\ WaitsFor(u, "portfolio_paused")))
    /\ [][\A t \in LockTasks :
             "strategy_allocations" \in held'[t] \ held[t]
                 => "portfolio_paused" \notin held[t]]_vars

\* a strategy task reads the allocations, having released the pause flag,
\* while another task holds the pause flag
C34_AllocationsBesidePause ==
    /\ held["strategy_task"] = {"strategy_allocations"}
    /\ lock_pc["strategy_task"] = 4
    /\ \E u \in LockTasks \ {"strategy_task"} : "portfolio_paused" \in held[u]

\* main is inside MasterExecutor::run
RunLoopRunning == lock_pc["main"] >= LoopStart("main")

\* C40: while the run loop is running, a request to /api/v1/state that waits
\* for the executor lock eventually gets it and returns a snapshot.
C40_StateRequestReturns ==
    (RunLoopRunning /\ lock_pc["state_handler"] = 1)
        ~> (lock_pc["state_handler"] = Returned)

\* the message at the head of the batch is the last one of its stream in it
LastOfStreamInBatch ==
    /\ batch # <<>>
    /\ \A k \in DOMAIN Tail(batch) : Tail(batch)[k].stream # Head(batch).stream

\* C35: when the run loop is done with the last message a batch holds for a
\* stream, valid, unparsable or stale, its cursor for that stream is the id
\* of that message.
C35_CursorAtEndOfBatch ==
    [][(LastOfStreamInBatch /\ batch' = Tail(batch))
           => market_stream_ids'[Head(batch).stream] = Head(batch).id]_vars

\* the strategy_task of instance i has not ended
Running(i) == tasks[i].pc # "dead"

\* C36: at any time at most one task runs per strategy id, and the router
\* holds at most one mailbox handle per strategy and event type.
C36_OneInstancePerStrategy ==
    /\ \A i, j \in DOMAIN tasks :
           (i # j /\ tasks[i].sid = tasks[j].sid) => ~(Running(i) /\ Running(j))
    /\ \A t \in EventTypes : \A k, l \in DOMAIN event_router_senders[t] :
           k # l => tasks[event_router_senders[t][k]].sid
                        # tasks[event_router_senders[t][l]].sid

\* drawdown_from_peak, as the monitor computed it at its last check, is above
\* the threshold
ObservedOver(hwm, pnl) ==
    hwm > 0 /\ (hwm - pnl) * 100 > PortfolioStopLossPercent * hwm

\* ... is below 0.8 times the threshold
ObservedRecovered(hwm, pnl) ==
    hwm <= 0 \/ (hwm - pnl) * 1000 < PortfolioStopLossPercent * 8 * hwm

\* the pause of the portfolio stop-loss is in force: the monitor has set the
\* flag (it publishes PAUSE only in the branch that sets it, and RESUME only in
\* the branch that clears it), the flag is set and the monitor's last check
\* saw the drawdown above the threshold
MonitorHoldsPause ==
    /\ kill_switch_listener # <<>>
    /\ kill_switch_listener[Len(kill_switch_listener)] = "PAUSE"
    /\ portfolio_paused
    /\ ObservedOver(highest_water_mark_pnl, current_pnl)

\* C37: a pause the portfolio monitor holds because of the drawdown is cleared
\* only by a check of the monitor that observes the drawdown below 0.8 times
\* the threshold, and by no other writer of the flag.
C37_OnlyMonitorClearsItsPause ==
    [][(MonitorHoldsPause /\ ~portfolio_paused')
           => ObservedRecovered(highest_water_mark_pnl', current_pnl')]_vars

\* C38, as stated: a check of the portfolio monitor sets the flag when the
\* peak of closed PnL is positive and the drawdown from the peak is above the
\* threshold T, clears it when it is set and the drawdown from a positive
\* peak is below 0.8 T, and in every other case (drawdown from 0.8 T to T,
\* peak not positive, or the ledger read failed) leaves the flag as it was.
C38_UnchangedWithoutPeak ==
    [][\A conn_ok, db_ok, pub_ok \in BOOLEAN :
           PortfolioMonitorCheck(conn_ok, db_ok, pub_ok) =>
               LET total == get_total_pnl(trades)
                   peak == Max(highest_water_mark_pnl, total)
                   read == conn_ok /\ db_ok /\ peak > 0
               IN  portfolio_paused' =
                       IF read /\ ObservedOver(peak, total) THEN TRUE
                       ELSE IF read /\ portfolio_paused /\ ObservedRecovered(peak, total)
                       THEN FALSE
                       ELSE portfolio_paused]_vars

\* C38, amended: a check of the portfolio monitor changes the pause flag only
\* thus: it sets it when the peak of closed PnL is positive and the drawdown
\* from the peak is above the threshold T; it clears it when it is set and the
\* drawdown is below 0.8 T, the drawdown being 0 while the peak is not
\* positive; in every other case (drawdown from 0.8 T to T, or the broker
\* connection or the ledger read failed) it leaves the flag as it was.
C38_MonitorChangesFlagByRule ==
    [][\A conn_ok, db_ok, pub_ok \in BOOLEAN :
           PortfolioMonitorCheck(conn_ok, db_ok, pub_ok) =>
               LET total == get_total_pnl(trades)
                   peak == Max(highest_water_mark_pnl, total)
                   read == conn_ok /\ db_ok
               IN  portfolio_paused' =
                       IF read /\ ObservedOver(peak, total) THEN TRUE
                       ELSE IF read /\ portfolio_paused /\ ObservedRecovered(peak, total)
                       THEN FALSE
                       ELSE portfolio_paused]_vars

\* a check of the monitor has found the flag set while no profit was ever
\* closed: it has published RESUME and cleared the flag
C38_ClearedWithoutPeak ==
    /\ ~portfolio_paused
    /\ kill_switch_listener # <<>>
    /\ kill_switch_listener[Len(kill_switch_listener)] = "RESUME"
    /\ highest_water_mark_pnl <= 0

\* C39: within one position check every trade that is OPEN with a cached
\* price is evaluated against its trailing stop, whether or not the close of
\* another trade fails: its stored extreme is brought up to the price and,
\* when the stop is hit, its close is issued; a trade that is still OPEN
\* after the check has no close field set.
C39_FailedCloseDoesNotStopCheck ==
    [][IsCheck =>
         \A id \in DOMAIN trades :
           (/\ trades[id].status = "OPEN"
            /\ current_prices[trades[id].token_address] # None)
             => LET p == unwrap(current_prices[trades[id].token_address])
                    highest == Max(unwrap(trades[id].highest_price_usd), p)
                    hit == IF trades[id].side = "Long"
                           THEN p * 100 < highest * (100 - TrailingStopLossPercent)
                           ELSE p * 100 > highest * (100 - TrailingStopLossPercent)
                IN  /\ trades'[id].highest_price_usd = Some(highest)
                    /\ hit => CloseCalls(venue_calls', id) # {}
                    /\ trades'[id].status = "OPEN"
                          => /\ trades'[id].close_price_usd = None
                             /\ trades'[id].pnl_usd = None]_vars

====
